---- MODULE Spec2Model ----
(***************************************************************************)
(* Model of check_squash_availability.py: the RPDE paginator               *)
(* (PlacesLeisureAPI), the window filter and the per-court aggregation     *)
(* (SquashAvailabilityChecker) and the programmatic entry point            *)
(* (check_availability_programmatic).                                      *)
(*                                                                         *)
(* Three specifications share the variables and the actions:               *)
(*   Spec      - one call of check_availability_programmatic, end to end;  *)
(*   SpecFetch - fetch_all_slots alone, against scripted feeds, including  *)
(*               feeds longer than the page ceiling;                       *)
(*   SpecAgg   - get_squash_court_availability alone, on lists of slots.   *)
(***************************************************************************)
EXTENDS Integers, Sequences, FiniteSets, TLC

VARIABLES
    feed,               \* the server's script (environment, fixed per run)
    target_date,        \* argument target_date, a date string
    start_time,         \* argument start_time, a time string
    pc,                 \* position of the run
    next_url,           \* fetch_all_slots: next_url
    page_count,         \* fetch_all_slots: page_count
    all_slots,          \* fetch_all_slots: all_slots
    gets,               \* number of session.get calls issued so far
    windows,            \* main_start, main_end, before_start, before_end
    main_slots,         \* check_squash_availability: main_slots
    before_slots,       \* check_squash_availability: before_slots
    time_slots,         \* get_squash_court_availability: time_slots, in insertion order
    gi,                 \* index of the next group of time_slots to process
    court_info,         \* get_squash_court_availability: court_info, in insertion order
    main_court_info,    \* check_squash_availability: main_court_info
    before_court_info,  \* check_squash_availability: before_court_info
    exc,                \* the exception in flight or the exit status, "" when none
    result              \* the dict check_availability_programmatic returns

vars == <<feed, target_date, start_time, pc, next_url, page_count, all_slots, gets,
          windows, main_slots, before_slots, time_slots, gi, court_info,
          main_court_info, before_court_info, exc, result>>

(***************************************************************************)
(* Bounds of the model.                                                    *)
(***************************************************************************)
MaxPages == 2      \* scripted pages of a short feed
MaxSlots == 3      \* slots handed to the aggregation in SpecAgg
MaxFeedItems == 2  \* items of a feed in the end-to-end runs
MaxFilterItems == 2  \* items handed to the filter in SpecFilter

(***************************************************************************)
(* Program constants.                                                      *)
(***************************************************************************)
BASE_URL == 0          \* PlacesLeisureAPI.BASE_URL; URLs are numbered
NoUrl == -1            \* None (also a missing or empty 'next')
MaxPageCount == 1000   \* the ceiling in "if page_count > 1000"
SlotMinutes == 40      \* timedelta(minutes=40)

Min(a, b) == IF a <= b THEN a ELSE b
Max(a, b) == IF a >= b THEN a ELSE b

\* All sequences over S of length 0..n.
SeqsUpTo(S, n) == UNION {[1..k -> S] : k \in 0..n}

(***************************************************************************)
(* The feed.  A page is the JSON body of one response:                     *)
(*   [items |-> sequence of items, next |-> URL or NoUrl].                 *)
(* A feed script answers the k-th request: first nfill filler pages (page  *)
(* k carries no item, or the one item 100+k, and next = 100+k, a fresh     *)
(* URL), then the scripted pages in order; after them the server either    *)
(* keeps answering with the last scripted page ("replay") or the request   *)
(* fails ("fail").                                                         *)
(***************************************************************************)
Page(items, next) == [items |-> items, next |-> next]

FillPage(f, k) ==
    Page(IF f.fill = "one" THEN <<100 + k>> ELSE <<>>, 100 + k)

\* Whether the k-th request gets a response at all.
Answers(f, k) ==
    \/ k <= f.nfill + Len(f.pages)
    \/ f.after = "replay" /\ Len(f.pages) > 0

PageAt(f, k) ==
    IF k <= f.nfill THEN FillPage(f, k)
    ELSE f.pages[Min(k - f.nfill, Len(f.pages))]

(***************************************************************************)
(* PlacesLeisureAPI.fetch_slots / fetch_all_slots.                         *)
(***************************************************************************)
\* url = after_url or self.BASE_URL
RequestUrl(after_url) == IF after_url = NoUrl THEN BASE_URL ELSE after_url

\* Mutant of IsLastPage: any empty page ends the feed.
IsLastPage_AnyEmptyPage(data, current_url) == Len(data.items) = 0

\* Last page according to the RPDE rule: empty items AND next matches the
\* URL just requested.
IsLastPage(data, current_url) ==
    Len(data.items) = 0 /\ data.next = current_url

\* Mutant of OverCeiling: stops at the ceiling, not one past it.
OverCeiling_AtCeiling(count) == count >= MaxPageCount

\* The safety check "if page_count > 1000".
OverCeiling(count) == count > MaxPageCount

\* The outcome of a failed session.get / raise_for_status / response.json:
\* a RequestException is caught and the process exits with status 1.  A
\* malformed body raises requests' JSONDecodeError, a RequestException
\* from requests 2.27 on and a plain ValueError before: both outcomes.
FetchFailureOutcomes(kind) ==
    IF kind = "malformed" THEN {"SystemExit", "ValueError"} ELSE {"SystemExit"}

\* Mutant of FailurePc: the failure is swallowed and the loop left as if
\* the feed had ended.
FailurePc_Swallowed(out) == "fetched"

\* Where a failed fetch leaves the run: sys.exit(1) ends the process, an
\* exception propagates to the caller's handler.  Never back into the loop.
FailurePc(out) == IF out = "SystemExit" THEN "exit" ELSE "raised"

\* One iteration of the loop of fetch_all_slots with a response.
FetchPage ==
    /\ pc = "fetch"
    /\ Answers(feed, gets + 1)
    /\ LET data == PageAt(feed, gets + 1)
           current_url == RequestUrl(next_url)
           count == page_count + 1
           stop == \/ IsLastPage(data, current_url)
                   \/ data.next = NoUrl
                   \/ OverCeiling(count)
       IN  /\ gets' = gets + 1
           /\ page_count' = count
           /\ all_slots' = all_slots \o data.items
           /\ next_url' = IF IsLastPage(data, current_url) THEN next_url ELSE data.next
           /\ pc' = IF stop THEN "fetched" ELSE "fetch"
    /\ UNCHANGED <<feed, target_date, start_time, windows, main_slots, before_slots,
                   time_slots, gi, court_info, main_court_info, before_court_info,
                   exc, result>>

\* One iteration whose request fails: fetch_slots prints and calls
\* sys.exit(1) (or, for a body that is not JSON under an old requests,
\* lets the ValueError propagate).
FetchFail ==
    /\ pc = "fetch"
    /\ ~Answers(feed, gets + 1)
    /\ \E kind \in {"network", "status", "malformed"} :
         \E out \in FetchFailureOutcomes(kind) :
            /\ gets' = gets + 1
            /\ exc' = out
            /\ pc' = FailurePc(out)
    /\ UNCHANGED <<feed, target_date, start_time, next_url, page_count, all_slots,
                   windows, main_slots, before_slots, time_slots, gi, court_info,
                   main_court_info, before_court_info, result>>

(***************************************************************************)
(* Strings.  A facilityUse is a sequence of characters, so that the        *)
(* substring test of the filter and the split('/')[-1] of the aggregation  *)
(* are computed, not assumed.  Other strings are TLA+ strings.  Absent     *)
(* stands for a key that the dict does not hold.                           *)
(***************************************************************************)
Absent == "<absent>"

\* d.get(key, default)
Get(v, default) == IF v = Absent THEN default ELSE v

\* squash_facility_ids = ["041A000005"]
SQUASH_FACILITY_ID == <<"0", "4", "1", "A", "0", "0", "0", "0", "0", "5">>

\* facility_id in facility_use
IsSubstring(needle, hay) ==
    \E i \in 0..(Len(hay) - Len(needle)) : SubSeq(hay, i + 1, i + Len(needle)) = needle

\* facility_use.split('/')[-1] if '/' in facility_use else facility_use
LastSegment(s) ==
    LET slashes == {i \in 1..Len(s) : s[i] = "/"}
    IN  IF slashes = {} THEN s
        ELSE SubSeq(s, (CHOOSE i \in slashes : \A j \in slashes : j <= i) + 1, Len(s))

\* Python's order on the identifiers the model uses: "" < "s1" < "s2" < "s3".
IdOrder == <<"", "s1", "s2", "s3">>
IdRank(s) == CHOOSE i \in 1..Len(IdOrder) : IdOrder[i] = s

(***************************************************************************)
(* Dates and times.  A date string is [y, mo, d], a time string [h, m], an *)
(* ISO timestamp [form, y, mo, d, h, mi, tz] with form "iso", "bad" (a     *)
(* string that does not parse), "missing" (no such key) or "null" (a value *)
(* that is not a string: JSON null, a number) and tz one of "Z", "+00:00", *)
(* "+01:00", "" (no offset).  A datetime is [ord, min, aware, off]: the    *)
(* proleptic Gregorian ordinal of its date, the minute of its day, and its *)
(* tzinfo (aware, off in minutes).                                         *)
(***************************************************************************)
IsLeap(y) == y % 4 = 0 /\ (y % 100 # 0 \/ y % 400 = 0)

DaysInMonth(y, mo) ==
    IF mo = 2 THEN (IF IsLeap(y) THEN 29 ELSE 28)
    ELSE IF mo \in {4, 6, 9, 11} THEN 30 ELSE 31

RECURSIVE DaysBeforeMonth(_, _)
DaysBeforeMonth(y, mo) ==
    IF mo = 1 THEN 0 ELSE DaysBeforeMonth(y, mo - 1) + DaysInMonth(y, mo - 1)

DaysBeforeYear(y) ==
    (y - 1) * 365 + ((y - 1) \div 4) - ((y - 1) \div 100) + ((y - 1) \div 400)

Ordinal(y, mo, d) == DaysBeforeYear(y) + DaysBeforeMonth(y, mo) + d

ValidDate(ds) == ds.y \in 1..9999 /\ ds.mo \in 1..12 /\ ds.d \in 1..DaysInMonth(ds.y, ds.mo)
ValidTime(ts) == ts.h \in 0..23 /\ ts.m \in 0..59

Naive(ord, min) == [ord |-> ord, min |-> min, aware |-> FALSE, off |-> 0]

\* datetime.strptime(s, "%H:%M"): the time on 1900-01-01.  Defined for ValidTime(s).
StrptimeHM(ts) == Naive(Ordinal(1900, 1, 1), ts.h * 60 + ts.m)

\* dt + timedelta(minutes=n), n of either sign
AddMinutes(dt, n) ==
    [dt EXCEPT !.ord = dt.ord + ((dt.min + n) \div 1440),
               !.min = (dt.min + n) % 1440]

\* dt.strftime("%H:%M"): the date is dropped
StrftimeHM(dt) == [h |-> dt.min \div 60, m |-> dt.min % 60]

\* parse_datetime(date_str, time_str) when strptime succeeds
ParseDatetime(ds, ts) == Naive(Ordinal(ds.y, ds.mo, ds.d), ts.h * 60 + ts.m)
ParsesDatetime(ds, ts) == ValidDate(ds) /\ ValidTime(ts)

TzOffset(tz) == IF tz = "+01:00" THEN 60 ELSE 0

\* datetime.fromisoformat(s.replace('Z', '+00:00')), for form = "iso"
FromIso(t) ==
    [ord |-> Ordinal(t.y, t.mo, t.d), min |-> t.h * 60 + t.mi,
     aware |-> t.tz # "", off |-> TzOffset(t.tz)]

\* dt.replace(tzinfo=other.tzinfo)
ReplaceTz(dt, other) == [dt EXCEPT !.aware = other.aware, !.off = other.off]

\* The instant compared by < and > (both naive or both aware).
Instant(dt) == dt.ord * 1440 + dt.min - dt.off
Comparable(a, b) == a.aware = b.aware

\* time_overlaps
TimeOverlaps(slot_start, slot_end, check_start, check_end) ==
    Instant(slot_start) < Instant(check_end) /\ Instant(slot_end) > Instant(check_start)

(***************************************************************************)
(* Feed items.  An item is its 'data' dict, flattened:                     *)
(*   [nodata, identifier, facilityUse, startDate, endDate, remainingUses,  *)
(*    offers, locations]                                                   *)
(* nodata: the item has no (or an empty) 'data'; offers: the prices of the *)
(* offers, in pence; locations: beta:sportsActivityLocation, each          *)
(* [name, identifier] with "" for a missing or empty value.                *)
(***************************************************************************)
\* The windows check_squash_availability computes (lines 363-367).
WindowsOf(st) ==
    [main_start |-> st,
     main_end |-> StrftimeHM(AddMinutes(StrptimeHM(st), SlotMinutes)),
     before_start |-> StrftimeHM(AddMinutes(StrptimeHM(st), 0 - SlotMinutes)),
     before_end |-> st]

\* One iteration of the loop of filter_squash_slots_by_time, on the state
\* [ts, te, out, err]: target_start, target_end, filtered_slots, and the
\* exception that left the loop ("" when none).  Inside the try, startDate
\* is read and parsed before endDate: KeyError (no such key) and ValueError
\* (a string that is not ISO) are caught and the item skipped; a value
\* without .replace raises AttributeError, which is not caught.
FilterStep(st, item) ==
    IF st.err # "" \/ item.nodata THEN st
    ELSE IF ~IsSubstring(SQUASH_FACILITY_ID, item.facilityUse) THEN st
    ELSE IF item.startDate.form \in {"missing", "bad"} THEN st
    ELSE IF item.startDate.form = "null" THEN [st EXCEPT !.err = "AttributeError"]
    ELSE IF item.endDate.form \in {"missing", "bad"} THEN st
    ELSE IF item.endDate.form = "null" THEN [st EXCEPT !.err = "AttributeError"]
    ELSE
      LET slot_start == FromIso(item.startDate)
          slot_end == FromIso(item.endDate)
          ts == IF st.ts.aware THEN st.ts ELSE ReplaceTz(st.ts, slot_start)
          te == IF st.te.aware THEN st.te ELSE ReplaceTz(st.te, slot_end)
          st2 == [st EXCEPT !.ts = ts, !.te = te]
      IN  IF slot_start.ord # ts.ord THEN st2
          ELSE IF ~Comparable(slot_start, te) THEN [st2 EXCEPT !.err = "TypeError"]
          ELSE IF ~(Instant(slot_start) < Instant(te)) THEN st2
          ELSE IF ~Comparable(slot_end, ts) THEN [st2 EXCEPT !.err = "TypeError"]
          ELSE IF TimeOverlaps(slot_start, slot_end, ts, te)
               THEN [st2 EXCEPT !.out = Append(st.out, item)]
               ELSE st2

RECURSIVE FilterLoop(_, _, _)
FilterLoop(st, slots, i) ==
    IF i > Len(slots) THEN st ELSE FilterLoop(FilterStep(st, slots[i]), slots, i + 1)

\* filter_squash_slots_by_time(slots, target_date, start_time, end_time):
\* [err, out].  err = "SystemExit" when parse_datetime fails.  A call that
\* raises returns nothing: out is the list only when err = "".
FilterSquashSlotsByTime(slots, ds, start, end) ==
    IF ~ParsesDatetime(ds, start) \/ ~ParsesDatetime(ds, end)
    THEN [err |-> "SystemExit", out |-> <<>>]
    ELSE LET st == FilterLoop([ts |-> ParseDatetime(ds, start),
                               te |-> ParseDatetime(ds, end),
                               out |-> <<>>, err |-> ""], slots, 1)
         IN  [err |-> st.err, out |-> IF st.err = "" THEN st.out ELSE <<>>]

(***************************************************************************)
(* get_squash_court_availability.  court_info is a dict in insertion       *)
(* order: a sequence of entries                                            *)
(*   [name, id, available, remaining_uses, slots]                          *)
(* with slots a sequence of periods [start, end, remaining].  time_slots   *)
(* is a dict in insertion order: a sequence of [start, group].             *)
(***************************************************************************)
HasKey(seq, field, key) == \E i \in 1..Len(seq) : seq[i][field] = key
IndexOf(seq, field, key) == CHOOSE i \in 1..Len(seq) : seq[i][field] = key

\* The period dict appended to an entry's 'slots'.
PeriodOf(slot_data, remaining_uses) ==
    [start |-> slot_data.startDate, end |-> slot_data.endDate,
     remaining |-> remaining_uses]

\* Mutant of UpdateCourt: remaining_uses is the last period's, not the
\* running maximum.
UpdateCourt_LastRemaining(ci, court_name, court_id, remaining_uses, period) ==
    LET ci1 == IF \E i \in 1..Len(ci) : ci[i].name = court_name THEN ci
               ELSE Append(ci, [name |-> court_name, id |-> court_id,
                                available |-> FALSE, remaining_uses |-> 0,
                                slots |-> <<>>])
        i == CHOOSE i \in 1..Len(ci1) : ci1[i].name = court_name
        e == ci1[i]
    IN  [ci1 EXCEPT ![i] =
            [e EXCEPT !.remaining_uses = remaining_uses,
                      !.available = e.available \/ remaining_uses > 0,
                      !.slots = Append(e.slots, period)]]

\* Mutant of UpdateCourt: 'available' is overwritten by the last period
\* instead of only ever being set.
UpdateCourt_Overwrites(ci, court_name, court_id, remaining_uses, period) ==
    LET ci1 == IF \E i \in 1..Len(ci) : ci[i].name = court_name THEN ci
               ELSE Append(ci, [name |-> court_name, id |-> court_id,
                                available |-> FALSE, remaining_uses |-> 0,
                                slots |-> <<>>])
        i == CHOOSE i \in 1..Len(ci1) : ci1[i].name = court_name
        e == ci1[i]
    IN  [ci1 EXCEPT ![i] =
            [e EXCEPT !.remaining_uses = Max(e.remaining_uses, remaining_uses),
                      !.available = remaining_uses > 0,
                      !.slots = Append(e.slots, period)]]

\* "if court_name not in court_info: ..." followed by the update of
\* remaining_uses, available and slots (lines 204-224, 238-258, 336-356).
UpdateCourt(ci, court_name, court_id, remaining_uses, period) ==
    LET ci1 == IF HasKey(ci, "name", court_name) THEN ci
               ELSE Append(ci, [name |-> court_name, id |-> court_id,
                                available |-> FALSE, remaining_uses |-> 0,
                                slots |-> <<>>])
        i == IndexOf(ci1, "name", court_name)
        e == ci1[i]
    IN  [ci1 EXCEPT ![i] =
            [e EXCEPT !.remaining_uses = Max(e.remaining_uses, remaining_uses),
                      !.available = e.available \/ remaining_uses > 0,
                      !.slots = Append(e.slots, period)]]

\* offers[0].get('price', 0) if offers else 0
FirstPrice(slot_data) ==
    IF Len(slot_data.offers) > 0 THEN slot_data.offers[1] ELSE 0

\* is_partially_booked (lines 195-197)
IsPartiallyBooked(slot_data) ==
    /\ slot_data.remainingUses = 0
    /\ Len(slot_data.offers) > 0
    /\ slot_data.offers[1] > 0

\* Mutant of TriggersMissingSlot: two or more locations.
TriggersMissingSlot_AtLeastTwo(slot_data) ==
    IsPartiallyBooked(slot_data) /\ Len(slot_data.locations) >= 2

\* "if is_partially_booked and len(locations) == 2" (line 261)
TriggersMissingSlot(slot_data) ==
    IsPartiallyBooked(slot_data) /\ Len(slot_data.locations) = 2

\* Mutant of ProcessMissingSlot: court_info.clear() is left out and the
\* generic entry merged into the map.
ProcessMissingSlot_NoClear(slot_data, ci) ==
    UpdateCourt(ci, "Available Courts", "partial_booking", slot_data.remainingUses,
                PeriodOf(slot_data, slot_data.remainingUses))

\* _process_missing_slot: clear court_info, leave the one generic entry.
ProcessMissingSlot(slot_data, ci) ==
    << [name |-> "Available Courts", id |-> "partial_booking",
        available |-> slot_data.remainingUses > 0,
        remaining_uses |-> slot_data.remainingUses,
        slots |-> << PeriodOf(slot_data, slot_data.remainingUses) >>] >>

\* The name and id _process_single_slot gives one location (lines 228-236).
LocationCourtName(location) ==
    IF location.name # "" THEN location.name
    ELSE "Squash Court (" \o location.identifier \o ")"

LocationCourtId(location, slot_data) ==
    IF location.identifier # "" THEN location.identifier
    ELSE Get(slot_data.identifier, "Unknown")

\* The loop over locations of _process_single_slot (lines 227-258).
RECURSIVE SingleSlotLocations(_, _, _)
SingleSlotLocations(slot_data, ci, k) ==
    IF k > Len(slot_data.locations) THEN ci
    ELSE SingleSlotLocations(
            slot_data,
            UpdateCourt(ci, LocationCourtName(slot_data.locations[k]),
                        LocationCourtId(slot_data.locations[k], slot_data),
                        slot_data.remainingUses,
                        PeriodOf(slot_data, slot_data.remainingUses)),
            k + 1)

\* _process_single_slot
ProcessSingleSlot(slot_data, ci) ==
    LET ci1 == IF Len(slot_data.locations) = 0
               THEN UpdateCourt(ci,
                        "Squash Court (" \o Get(slot_data.identifier, "Unknown") \o ")",
                        Get(slot_data.identifier, "Unknown"),
                        slot_data.remainingUses,
                        PeriodOf(slot_data, slot_data.remainingUses))
               ELSE SingleSlotLocations(slot_data, ci, 1)
    IN  IF TriggersMissingSlot(slot_data)
        THEN ProcessMissingSlot([slot_data EXCEPT !.remainingUses = 1,
                                                  !.offers = <<0>>], ci1)
        ELSE ci1

\* slot_group.sort(key=lambda x: x.get('identifier', '')): a stable sort.
RECURSIVE InsertById(_, _)
InsertById(sorted, x) ==
    IF sorted = <<>> THEN <<x>>
    ELSE IF IdRank(Get(sorted[Len(sorted)].identifier, ""))
              <= IdRank(Get(x.identifier, ""))
         THEN Append(sorted, x)
         ELSE Append(InsertById(SubSeq(sorted, 1, Len(sorted) - 1), x),
                     sorted[Len(sorted)])

RECURSIVE SortByIdentifier(_)
SortByIdentifier(group) ==
    IF group = <<>> THEN <<>>
    ELSE InsertById(SortByIdentifier(SubSeq(group, 1, Len(group) - 1)),
                    group[Len(group)])

\* Mutant of TargetCourtName: the price is not looked at.
TargetCourtName_IgnoresPrice(slot_data) ==
    IF slot_data.remainingUses > 0 THEN "Squash Court 2" ELSE "Squash Court 1"

\* The court a slot of a multi-slot group is assigned to (lines 311-318).
TargetCourtName(slot_data) ==
    IF slot_data.remainingUses > 0 /\ FirstPrice(slot_data) > 0
    THEN "Squash Court 2" ELSE "Squash Court 1"

TargetCourtId(slot_data) ==
    IF slot_data.remainingUses > 0 /\ FirstPrice(slot_data) > 0
    THEN "041ZSQU002" ELSE "041ZSQU001"

\* The id of the first location named as the target court, else the
\* target id (lines 321-334).
MatchedCourtId(slot_data) ==
    LET target == TargetCourtName(slot_data)
        hits == {k \in 1..Len(slot_data.locations) : slot_data.locations[k].name = target}
    IN  IF hits = {} THEN TargetCourtId(slot_data)
        ELSE slot_data.locations[CHOOSE k \in hits : \A j \in hits : k <= j].identifier

RECURSIVE MultipleLoop(_, _, _)
MultipleLoop(sorted, ci, k) ==
    IF k > Len(sorted) THEN ci
    ELSE MultipleLoop(sorted,
                      UpdateCourt(ci, TargetCourtName(sorted[k]), MatchedCourtId(sorted[k]),
                                  sorted[k].remainingUses,
                                  PeriodOf(sorted[k], sorted[k].remainingUses)),
                      k + 1)

\* _process_multiple_court_slots: [court_info, slot_group].  The group is
\* sorted in place (line 300), so the caller's list is left in identifier
\* order.
ProcessMultipleCourtSlots(slot_group, ci) ==
    [court_info |-> MultipleLoop(SortByIdentifier(slot_group), ci, 1),
     slot_group |-> SortByIdentifier(slot_group)]

\* The body of "for start_time, slot_group in time_slots.items()":
\* [court_info, slot_group], the map and the group after the call.
ProcessGroup(slot_group, ci) ==
    IF Len(slot_group) = 1
    THEN [court_info |-> ProcessSingleSlot(slot_group[1], ci), slot_group |-> slot_group]
    ELSE ProcessMultipleCourtSlots(slot_group, ci)

\* Whether the grouping loop keeps a slot (lines 154-166).
IsSquashSlot(slot_data) ==
    ~slot_data.nodata /\ LastSegment(slot_data.facilityUse) = SQUASH_FACILITY_ID

\* The grouping loop (lines 153-173): time_slots keyed by startDate.
RECURSIVE GroupByStart(_, _, _)
GroupByStart(slots, ts, i) ==
    IF i > Len(slots) THEN ts
    ELSE IF ~IsSquashSlot(slots[i]) THEN GroupByStart(slots, ts, i + 1)
    ELSE LET key == slots[i].startDate
             ts1 == IF HasKey(ts, "start", key) THEN ts
                    ELSE Append(ts, [start |-> key, group |-> <<>>])
             j == IndexOf(ts1, "start", key)
         IN  GroupByStart(slots,
                          [ts1 EXCEPT ![j].group = Append(ts1[j].group, slots[i])],
                          i + 1)

(***************************************************************************)
(* check_squash_availability and check_availability_programmatic.          *)
(***************************************************************************)
NoResult == [kind |-> "none"]

\* Before line 363 has run.
NoWindows == [main_start |-> <<>>, main_end |-> <<>>,
              before_start |-> <<>>, before_end |-> <<>>]

\* Lines 363-367: the four window bounds.  strptime raises ValueError on a
\* start_time that is not HH:MM; the handler of
\* check_availability_programmatic catches it.
ComputeWindows ==
    /\ pc = "start"
    /\ IF ValidTime(start_time)
       THEN /\ windows' = WindowsOf(start_time)
            /\ pc' = "fetch"
            /\ exc' = exc
       ELSE /\ windows' = windows
            /\ pc' = "raised"
            /\ exc' = "ValueError"
    /\ UNCHANGED <<feed, target_date, start_time, next_url, page_count, all_slots, gets,
                   main_slots, before_slots, time_slots, gi, court_info,
                   main_court_info, before_court_info, result>>

\* Line 372: main_slots = filter_squash_slots_by_time(all_slots, ...).
FilterMain ==
    /\ pc = "fetched"
    /\ LET r == FilterSquashSlotsByTime(all_slots, target_date,
                                        windows.main_start, windows.main_end)
       IN  /\ main_slots' = IF r.err = "" THEN r.out ELSE main_slots
           /\ exc' = r.err
           /\ pc' = IF r.err = "" THEN "filter_before"
                    ELSE IF r.err = "SystemExit" THEN "exit" ELSE "raised"
    /\ UNCHANGED <<feed, target_date, start_time, next_url, page_count, all_slots, gets,
                   windows, before_slots, time_slots, gi, court_info,
                   main_court_info, before_court_info, result>>

\* Line 375: before_slots = filter_squash_slots_by_time(all_slots, ...).
FilterBefore ==
    /\ pc = "filter_before"
    /\ LET r == FilterSquashSlotsByTime(all_slots, target_date,
                                        windows.before_start, windows.before_end)
       IN  /\ before_slots' = IF r.err = "" THEN r.out ELSE before_slots
           /\ exc' = r.err
           /\ pc' = IF r.err = "" THEN "agg_main"
                    ELSE IF r.err = "SystemExit" THEN "exit" ELSE "raised"
    /\ UNCHANGED <<feed, target_date, start_time, next_url, page_count, all_slots, gets,
                   windows, main_slots, time_slots, gi, court_info,
                   main_court_info, before_court_info, result>>

\* get_squash_court_availability, lines 143-173: the grouping loop, for the
\* main window (line 377) or the before window (line 378).
AggStart ==
    /\ pc \in {"agg_main", "agg_before"}
    /\ time_slots' = GroupByStart(IF pc = "agg_main" THEN main_slots ELSE before_slots,
                                  <<>>, 1)
    /\ court_info' = <<>>
    /\ gi' = 1
    /\ pc' = IF pc = "agg_main" THEN "proc_main" ELSE "proc_before"
    /\ UNCHANGED <<feed, target_date, start_time, next_url, page_count, all_slots, gets,
                   windows, main_slots, before_slots, main_court_info,
                   before_court_info, exc, result>>

\* One iteration of the loop of lines 176-182.  The group handed to
\* _process_multiple_court_slots is the list held in time_slots, which the
\* call sorts.
AggStep ==
    /\ pc \in {"proc_main", "proc_before"}
    /\ gi <= Len(time_slots)
    /\ LET r == ProcessGroup(time_slots[gi].group, court_info)
       IN  /\ court_info' = r.court_info
           /\ time_slots' = [time_slots EXCEPT ![gi].group = r.slot_group]
    /\ gi' = gi + 1
    /\ UNCHANGED <<feed, target_date, start_time, pc, next_url, page_count, all_slots,
                   gets, windows, main_slots, before_slots,
                   main_court_info, before_court_info, exc, result>>

\* Line 184: return court_info.
AggReturn ==
    /\ pc \in {"proc_main", "proc_before"}
    /\ gi > Len(time_slots)
    /\ IF pc = "proc_main"
       THEN /\ main_court_info' = court_info
            /\ before_court_info' = before_court_info
            /\ pc' = "agg_before"
       ELSE /\ before_court_info' = court_info
            /\ main_court_info' = main_court_info
            /\ pc' = "report"
    /\ UNCHANGED <<feed, target_date, start_time, next_url, page_count, all_slots, gets,
                   windows, main_slots, before_slots, time_slots, gi, court_info,
                   exc, result>>

\* sum(1 for court_data in court_info.values() if court_data['available'])
CountAvailable(ci) == Cardinality({i \in 1..Len(ci) : ci[i].available})

\* Mutant of MessageFor: the plural phrasing also for one.
MessageFor_AlwaysPlural(before_available) ==
    IF before_available > 0
    THEN "There are " \o ToString(before_available) \o " slots free before your booking"
    ELSE "There is no slots free before your booking"

\* Lines 498-506.
MessageFor(before_available) ==
    IF before_available > 0
    THEN IF before_available = 1
         THEN "There is one slot free before your booking"
         ELSE "There are " \o ToString(before_available)
                \o " slots free before your booking"
    ELSE "There is no slots free before your booking"

SuccessFor(before_available) == before_available > 0

BOOKING_BASE == "https://placesleisure.gladstonego.cloud/book/calendar/041A000005"

\* The URL of the error result: no parameters.
GenericBookingUrl == [base |-> BOOKING_BASE, params |-> <<>>]

\* Lines 512-523: activityDate is the before window's start on the target
\* date, as UTC; previousActivityDate is 40 minutes earlier.  The two
\* datetimes stand for their formatted text.  A datetime before 0001-01-01
\* (ordinal 1) does not exist: the subtraction of line 516 raises
\* OverflowError.
BookingUrl(ds, before_start) ==
    LET before_datetime_utc ==
            [ParseDatetime(ds, before_start) EXCEPT !.aware = TRUE]
        previous_datetime == AddMinutes(before_datetime_utc, 0 - SlotMinutes)
    IN  IF previous_datetime.ord < 1 THEN [raised |-> "OverflowError"]
        ELSE [base |-> BOOKING_BASE,
              params |-> <<before_datetime_utc, previous_datetime>>]

\* Lines 494-540: the result of a run that raised nothing before; building
\* the booking URL can still raise, into the handler of line 542.
BuildReport ==
    /\ pc = "report"
    /\ LET url == BookingUrl(target_date, windows.before_start)
       IN  IF "raised" \in DOMAIN url
           THEN /\ exc' = url.raised
                /\ pc' = "raised"
                /\ result' = result
           ELSE /\ result' =
                     [kind |-> "report",
                      success |-> SuccessFor(CountAvailable(before_court_info)),
                      message |-> MessageFor(CountAvailable(before_court_info)),
                      main_slot_available |-> CountAvailable(main_court_info),
                      before_slot_available |-> CountAvailable(before_court_info),
                      booking_url |-> url,
                      main_court_info |-> main_court_info,
                      before_court_info |-> before_court_info,
                      time_slots |-> windows]
                /\ pc' = "done"
                /\ exc' = exc
    /\ UNCHANGED <<feed, target_date, start_time, next_url, page_count, all_slots, gets,
                   windows, main_slots, before_slots, time_slots, gi, court_info,
                   main_court_info, before_court_info>>

\* Lines 542-549: "except Exception as e".  SystemExit is not an Exception
\* and never gets here.
HandleException ==
    /\ pc = "raised"
    /\ result' = [kind |-> "error",
                  success |-> FALSE,
                  message |-> "Error checking availability: " \o exc,
                  booking_url |-> GenericBookingUrl,
                  error |-> exc]
    /\ pc' = "done"
    /\ UNCHANGED <<feed, target_date, start_time, next_url, page_count, all_slots, gets,
                   windows, main_slots, before_slots, time_slots, gi, court_info,
                   main_court_info, before_court_info, exc>>

(***************************************************************************)
(* Sample data: Alfreton squash slots of 3 February 2026.                  *)
(***************************************************************************)
Ts(d, h, mi) == [form |-> "iso", y |-> 2026, mo |-> 2, d |-> d, h |-> h, mi |-> mi, tz |-> "Z"]
TsAt(d, h, mi, tz) == [Ts(d, h, mi) EXCEPT !.tz = tz]
BadTs == [form |-> "bad", y |-> 0, mo |-> 0, d |-> 0, h |-> 0, mi |-> 0, tz |-> ""]
MissingTs == [BadTs EXCEPT !.form = "missing"]
NullTs == [BadTs EXCEPT !.form = "null"]

FU_SQUASH == <<"f", "/">> \o SQUASH_FACILITY_ID            \* ".../041A000005"
FU_NESTED == FU_SQUASH \o <<"/", "s">>                     \* ".../041A000005/s"
FU_OTHER == <<"f", "/", "0", "4", "1", "B">>               \* another facility

Court1 == [name |-> "Squash Court 1", identifier |-> "041ZSQU001"]
Court2 == [name |-> "Squash Court 2", identifier |-> "041ZSQU002"]
Unnamed == [name |-> "", identifier |-> "L9"]
\* a location that carries the name the override gives its entry
NamedAvailable == [name |-> "Available Courts", identifier |-> "L7"]

Slot(identifier, fu, start, end, remaining, offers, locations) ==
    [nodata |-> FALSE, identifier |-> identifier, facilityUse |-> fu,
     startDate |-> start, endDate |-> end, remainingUses |-> remaining,
     offers |-> offers, locations |-> locations]

\* The periods 09:20-10:00 and 10:00-10:40, as <<h, mi, h, mi>>.
Early == <<9, 20, 10, 0>>
Late == <<10, 0, 10, 40>>

\* [identifier, remainingUses, offers, locations, periods] of the slots
\* aggregated.
Profiles ==
    { <<"s1", 0, <<1025>>, <<Court1, Court2>>, {Early, Late}>>,  \* booked half of a two-court period
      <<"s2", 1, <<1025>>, <<>>, {Early, Late}>>,                \* free, on offer
      <<"s1", 0, <<0>>, <<>>, {Early}>>,                         \* booked
      <<"s3", 2, <<1025>>, <<Court1, Court2>>, {Early, Late}>>,  \* both courts free
      <<Absent, 1, <<0>>, <<Unnamed>>, {Early, Late}>>,          \* free at no price, one unnamed location
      <<"s3", 0, <<1025>>, <<>>, {Early, Late}>>,                \* booked, priced, no location
      <<"s2", 0, <<1025>>, <<Court1, Court2, Unnamed>>, {Late}>> } \* booked, priced, three locations

AggItems ==
    UNION {{Slot(p[1], FU_SQUASH, Ts(3, t[1], t[2]), Ts(3, t[3], t[4]), p[2], p[3], p[4]) :
                t \in p[5]} : p \in Profiles}
    \cup {Slot("s2", FU_NESTED, Ts(3, 9, 20), Ts(3, 10, 0), 1, <<1025>>, <<>>)}
    \* a third period, booked half or free
    \cup {Slot("s1", FU_SQUASH, Ts(3, 10, 40), Ts(3, 11, 20), 0, <<1025>>, <<Court1, Court2>>),
          Slot("s2", FU_SQUASH, Ts(3, 10, 40), Ts(3, 11, 20), 1, <<1025>>, <<>>)}
    \* a free slot at a location named "Available Courts"
    \cup {Slot("s3", FU_SQUASH, Ts(3, 10, 0), Ts(3, 10, 40), 1, <<1025>>, <<NamedAvailable>>)}

FeedItems ==
    { Slot("s2", FU_SQUASH, Ts(3, 9, 20), Ts(3, 10, 0), 1, <<1025>>, <<>>),
      Slot("s3", FU_SQUASH, Ts(3, 9, 20), Ts(3, 10, 0), 2, <<1025>>, <<Court1, Court2>>),
      Slot("s1", FU_SQUASH, Ts(3, 10, 0), Ts(3, 10, 40), 0, <<1025>>, <<Court1, Court2>>),
      Slot("s2", FU_SQUASH, Ts(3, 23, 30), Ts(4, 0, 10), 1, <<1025>>, <<>>),
      Slot("s1", FU_OTHER, Ts(3, 9, 20), Ts(3, 10, 0), 1, <<1025>>, <<>>),
      Slot("s1", FU_SQUASH, BadTs, Ts(3, 10, 0), 1, <<1025>>, <<>>) }

Dates == { [y |-> 2026, mo |-> 2, d |-> 3],       \* "2026-02-03"
           [y |-> 2026, mo |-> 2, d |-> 30],      \* "2026-02-30": no such date
           [y |-> 1, mo |-> 1, d |-> 1] }         \* "0001-01-01": the first date

Times == { [h |-> 10, m |-> 0], [h |-> 0, m |-> 10], [h |-> 23, m |-> 30],
           [h |-> 1, m |-> 0],
           [h |-> 24, m |-> 0] }                  \* "24:00": not a time

\* The feeds of the end-to-end runs: the items on one page followed by the
\* terminal page, or by a failing request, or on a page without 'next';
\* and a feed whose first request fails.
FeedScripts ==
    { <<>> }
    \cup UNION { { <<Page(l, 1), Page(<<>>, 1)>>, <<Page(l, 1)>>, <<Page(l, NoUrl)>> } :
                 l \in SeqsUpTo(FeedItems, MaxFeedItems) }

(***************************************************************************)
(* Spec: one call of check_availability_programmatic(target_date,          *)
(* start_time).                                                            *)
(***************************************************************************)
Init ==
    /\ feed \in {[nfill |-> 0, fill |-> "none", pages |-> p, after |-> "fail"] :
                    p \in FeedScripts}
    /\ target_date \in Dates
    /\ start_time \in Times
    /\ pc = "start"
    /\ next_url = NoUrl
    /\ page_count = 0
    /\ all_slots = <<>>
    /\ gets = 0
    /\ windows = NoWindows
    /\ main_slots = <<>>
    /\ before_slots = <<>>
    /\ time_slots = <<>>
    /\ gi = 0
    /\ court_info = <<>>
    /\ main_court_info = <<>>
    /\ before_court_info = <<>>
    /\ exc = ""
    /\ result = NoResult

Next ==
    \/ ComputeWindows
    \/ FetchPage
    \/ FetchFail
    \/ FilterMain
    \/ FilterBefore
    \/ AggStart
    \/ AggStep
    \/ AggReturn
    \/ BuildReport
    \/ HandleException

Spec == Init /\ [][Next]_vars

(***************************************************************************)
(* SpecAgg: get_squash_court_availability on every list of at most         *)
(* MaxSlots slots, as the main window's filtered list.                     *)
(***************************************************************************)
InitAgg ==
    /\ feed = [nfill |-> 0, fill |-> "none", pages |-> <<>>, after |-> "fail"]
    /\ target_date = <<>>
    /\ start_time = <<>>
    /\ pc = "agg_main"
    /\ next_url = NoUrl
    /\ page_count = 0
    /\ all_slots = <<>>
    /\ gets = 0
    /\ windows = NoWindows
    /\ main_slots \in SeqsUpTo(AggItems, MaxSlots)
    /\ before_slots = <<>>
    /\ time_slots = <<>>
    /\ gi = 0
    /\ court_info = <<>>
    /\ main_court_info = <<>>
    /\ before_court_info = <<>>
    /\ exc = ""
    /\ result = NoResult

NextAgg == AggStart \/ AggStep \/ AggReturn

SpecAgg == InitAgg /\ [][NextAgg]_vars

(***************************************************************************)
(* SpecFetch: fetch_all_slots against scripted feeds.                      *)
(***************************************************************************)
TokenPages ==
    {Page(items, next) : items \in {<<>>, <<7>>, <<8, 7>>},
                         next \in {NoUrl, BASE_URL, 1, 2}}

ShortFeeds ==
    {[nfill |-> 0, fill |-> "none", pages |-> p, after |-> "fail"] :
        p \in SeqsUpTo(TokenPages, MaxPages)}

\* Tails served after a long run of filler pages, and looping feeds.
LongTails ==
    { <<Page(<<7>>, 1), Page(<<>>, 1)>>,       \* one more page, then the last page
      <<Page(<<>>, 1), Page(<<>>, 1)>>,        \* the same, without items
      <<Page(<<8, 7>>, 1), Page(<<7>>, 2)>>,   \* ends in a page that names itself, with items
      <<Page(<<7>>, BASE_URL)>>,               \* a page with items that names itself
      <<Page(<<>>, 1)>> }                      \* an empty page, the last page when asked again

LongFeeds ==
    {[nfill |-> n, fill |-> fl, pages |-> p, after |-> "replay"] :
        n \in {0, MaxPageCount - 1, MaxPageCount, MaxPageCount + 1},
        fl \in {"none", "one"}, p \in LongTails}

InitFetch ==
    /\ feed \in ShortFeeds \cup LongFeeds
    /\ target_date = <<>>
    /\ start_time = <<>>
    /\ pc = "fetch"
    /\ next_url = NoUrl
    /\ page_count = 0
    /\ all_slots = <<>>
    /\ gets = 0
    /\ windows = NoWindows
    /\ main_slots = <<>>
    /\ before_slots = <<>>
    /\ time_slots = <<>>
    /\ gi = 0
    /\ court_info = <<>>
    /\ main_court_info = <<>>
    /\ before_court_info = <<>>
    /\ exc = ""
    /\ result = NoResult

NextFetch == FetchPage \/ FetchFail

SpecFetch == InitFetch /\ [][NextFetch]_vars

(***************************************************************************)
(* SpecFilter: filter_squash_slots_by_time on every list of at most        *)
(* MaxFilterItems items, for the two windows of a 10:00 booking on         *)
(* 3 February 2026: main [10:00, 10:40), before [09:20, 10:00).            *)
(***************************************************************************)
FilterSlot(fu, start, end) == Slot("s2", fu, start, end, 1, <<1025>>, <<>>)

FilterItems ==
    { FilterSlot(FU_SQUASH, Ts(3, 10, 0), Ts(3, 10, 40)),    \* the main window itself
      FilterSlot(FU_SQUASH, Ts(3, 9, 20), Ts(3, 10, 0)),     \* the before window itself
      FilterSlot(FU_SQUASH, Ts(3, 10, 40), Ts(3, 11, 20)),   \* starts where main ends
      FilterSlot(FU_SQUASH, Ts(3, 9, 40), Ts(3, 10, 20)),    \* across both windows
      FilterSlot(FU_SQUASH, TsAt(3, 10, 0, "+01:00"), TsAt(3, 10, 40, "+01:00")),
      FilterSlot(FU_SQUASH, Ts(4, 10, 0), Ts(4, 10, 40)),    \* the day after
      FilterSlot(FU_NESTED, Ts(3, 10, 0), Ts(3, 10, 40)),    \* id inside a longer URI
      FilterSlot(FU_OTHER, Ts(3, 10, 0), Ts(3, 10, 40)),     \* another facility
      FilterSlot(FU_SQUASH, BadTs, Ts(3, 10, 40)),           \* startDate is not ISO
      FilterSlot(FU_SQUASH, Ts(3, 10, 0), BadTs),            \* endDate is not ISO
      FilterSlot(FU_SQUASH, Ts(3, 10, 0), MissingTs),        \* no endDate
      FilterSlot(FU_SQUASH, MissingTs, Ts(3, 10, 40)),       \* no startDate
      FilterSlot(FU_SQUASH, NullTs, Ts(3, 10, 40)),          \* "startDate": null
      FilterSlot(FU_SQUASH, Ts(3, 10, 0), NullTs),           \* "endDate": null
      [FilterSlot(FU_SQUASH, Ts(3, 10, 0), Ts(3, 10, 40)) EXCEPT !.nodata = TRUE] }

InitFilter ==
    /\ feed = [nfill |-> 0, fill |-> "none", pages |-> <<>>, after |-> "fail"]
    /\ target_date = [y |-> 2026, mo |-> 2, d |-> 3]
    /\ start_time = [h |-> 10, m |-> 0]
    /\ pc = "fetched"
    /\ next_url = NoUrl
    /\ page_count = 0
    /\ all_slots \in SeqsUpTo(FilterItems, MaxFilterItems)
    /\ gets = 0
    /\ windows = WindowsOf([h |-> 10, m |-> 0])
    /\ main_slots = <<>>
    /\ before_slots = <<>>
    /\ time_slots = <<>>
    /\ gi = 0
    /\ court_info = <<>>
    /\ main_court_info = <<>>
    /\ before_court_info = <<>>
    /\ exc = ""
    /\ result = NoResult

NextFilter == FilterMain \/ FilterBefore

SpecFilter == InitFilter /\ [][NextFilter]_vars

(***************************************************************************)
(* What a feed script says, read off the script alone: the URL of the k-th *)
(* request of a client that follows 'next', termination signal A, and the  *)
(* items of the first n pages.                                             *)
(***************************************************************************)
UrlOf(f, k) == IF k = 1 THEN BASE_URL ELSE PageAt(f, k - 1).next

SignalA(f, k) ==
    /\ Answers(f, k)
    /\ Len(PageAt(f, k).items) = 0
    /\ PageAt(f, k).next = UrlOf(f, k)

\* Page k is served, is not the terminal page and names a next URL.
NonTerminal(f, k) ==
    /\ Answers(f, k)
    /\ PageAt(f, k).next # NoUrl
    /\ ~SignalA(f, k)

Horizon(f) == f.nfill + Len(f.pages) + 2

\* The index of the terminal page of a well-formed feed (at most one).
TerminalIndexes(f) ==
    {k \in 1..Horizon(f) : SignalA(f, k) /\ \A j \in 1..(k - 1) : NonTerminal(f, j)}

WellFormed(f) == TerminalIndexes(f) # {}
TerminalIndex(f) == CHOOSE k \in TerminalIndexes(f) : TRUE

\* A feed none of whose first MaxPageCount + 1 pages gives signal A or
\* lacks a next URL.
NeverSignalsA(f) == \A k \in 1..(MaxPageCount + 1) : NonTerminal(f, k)

RECURSIVE ScriptItems(_, _)
ScriptItems(f, m) ==
    IF m = 0 THEN <<>> ELSE ScriptItems(f, m - 1) \o f.pages[m].items

ReplayItems(f, r) ==
    IF Len(f.pages) = 0 THEN <<>>
    ELSE LET it == f.pages[Len(f.pages)].items
         IN  [i \in 1..(r * Len(it)) |-> it[((i - 1) % Len(it)) + 1]]

\* The concatenation of the items of pages 1..n, in order.
ItemsOfFirst(f, n) ==
    (IF f.fill = "one" THEN [i \in 1..Min(n, f.nfill) |-> 100 + i] ELSE <<>>)
    \o ScriptItems(f, Min(Max(n - f.nfill, 0), Len(f.pages)))
    \o ReplayItems(f, Max(n - f.nfill - Len(f.pages), 0))

(***************************************************************************)
(* C1 as claimed: for every well-formed feed (non-terminal pages name a    *)
(* next URL, the terminal page is empty and names the URL just requested)  *)
(* fetch_all_slots returns exactly the items of the pages before the       *)
(* terminal one, in order.  Refuted by a feed with more than               *)
(* MaxPageCount + 1 non-terminal pages.                                    *)
(***************************************************************************)
C1_AsClaimed ==
    (pc = "fetched" /\ WellFormed(feed)) =>
        all_slots = ItemsOfFirst(feed, TerminalIndex(feed) - 1)

(***************************************************************************)
(* C1 amended: the same for every well-formed feed with at most            *)
(* MaxPageCount + 1 = 1001 non-terminal pages; on such a feed the run      *)
(* never fails and never asks for a page after the terminal one.           *)
(***************************************************************************)
C1_ConcatenationUpToCeiling ==
    (pc # "fetch" /\ WellFormed(feed)
        /\ TerminalIndex(feed) - 1 <= MaxPageCount + 1) =>
        /\ pc = "fetched"
        /\ gets <= TerminalIndex(feed)
        /\ all_slots = ItemsOfFirst(feed, TerminalIndex(feed) - 1)

\* A well-formed feed of exactly 1001 non-terminal pages was fetched whole.
C1_Witness ==
    /\ pc = "fetched"
    /\ WellFormed(feed)
    /\ TerminalIndex(feed) - 1 = MaxPageCount + 1
    /\ Len(all_slots) >= MaxPageCount + 1

(***************************************************************************)
(* C2 as claimed: on a feed that never gives signal A the run returns      *)
(* after at most MaxPageCount = 1000 requests with a non-empty list.       *)
(***************************************************************************)
C2_AsClaimed ==
    (pc # "fetch" /\ NeverSignalsA(feed)) =>
        /\ pc = "fetched"
        /\ gets <= MaxPageCount
        /\ all_slots # <<>>

(***************************************************************************)
(* C2 amended: on such a feed the run returns, without raising, after      *)
(* exactly MaxPageCount + 1 = 1001 requests, and returns the items of      *)
(* those 1001 pages in order (an empty list when none carried items).      *)
(***************************************************************************)
C2_StopsOnePastCeiling ==
    (pc # "fetch" /\ NeverSignalsA(feed)) =>
        /\ pc = "fetched"
        /\ gets = MaxPageCount + 1
        /\ page_count = MaxPageCount + 1
        /\ all_slots = ItemsOfFirst(feed, MaxPageCount + 1)

\* The ceiling stopped a feed whose page names itself and carries items.
C2_Witness ==
    /\ pc = "fetched"
    /\ NeverSignalsA(feed)
    /\ feed.nfill = 0
    /\ all_slots # <<>>
    /\ gets > MaxPageCount

(***************************************************************************)
(* C3: if the request for a page fails, the run ends there: the failed     *)
(* request is the last one (no retry, no further page), the run is at its  *)
(* exit or in the caller's handler, and the items of the pages before are  *)
(* never filtered, aggregated or returned.                                 *)
(***************************************************************************)
FetchFailed == gets > page_count

C3_FailureEndsRun ==
    FetchFailed =>
        /\ gets = page_count + 1
        /\ pc \in {"exit", "raised", "done"}
        /\ main_slots = <<>> /\ before_slots = <<>>
        /\ time_slots = <<>> /\ court_info = <<>>
        /\ main_court_info = <<>> /\ before_court_info = <<>>
        /\ (pc = "exit" => result = NoResult)
        /\ (pc = "done" => result.kind = "error")

\* The second request failed after a first page with items: the process
\* has exited and holds the items.
C3_Witness ==
    /\ FetchFailed
    /\ page_count = 1
    /\ all_slots # <<>>
    /\ pc = "exit"

(***************************************************************************)
(* C4 as claimed: every failure during check_availability_programmatic     *)
(* ends in the error result (success false, the failure in the message,    *)
(* the generic booking URL); none leaves as a process exit.  Refuted:      *)
(* fetch_slots and parse_datetime call sys.exit(1), and SystemExit is not  *)
(* caught by "except Exception".                                           *)
(***************************************************************************)
C4_AsClaimed ==
    /\ pc # "exit"
    /\ (pc = "done" /\ exc # "") =>
          /\ result.success = FALSE
          /\ result.message = "Error checking availability: " \o exc
          /\ result.booking_url = [base |-> BOOKING_BASE, params |-> <<>>]

(***************************************************************************)
(* C5 as claimed: when the date or the start time does not parse, no page  *)
(* is ever requested.  Refuted: the date is first parsed by                *)
(* parse_datetime inside filter_squash_slots_by_time, after                *)
(* fetch_all_slots has returned.                                           *)
(***************************************************************************)
C5_AsClaimed ==
    (~ValidDate(target_date) \/ ~ValidTime(start_time)) => gets = 0

(***************************************************************************)
(* C6.  The periods of a map, counted with multiplicity, against the       *)
(* items of the list the map was built from.                               *)
(***************************************************************************)
MainReturned == pc \in {"agg_before", "proc_before", "report", "done"}

ItemPeriod(x) == [start |-> x.startDate, end |-> x.endDate, remaining |-> x.remainingUses]

\* How many periods equal to p the entries of ci hold.
PeriodsHeld(ci, p) ==
    Cardinality(UNION {{<<e, k>> : k \in {k \in 1..Len(ci[e].slots) : ci[e].slots[k] = p}} :
                        e \in 1..Len(ci)})

AllPeriods(ci, slots) ==
    {ItemPeriod(slots[i]) : i \in 1..Len(slots)}
    \cup UNION {{ci[e].slots[k] : k \in 1..Len(ci[e].slots)} : e \in 1..Len(ci)}

AvailableIffSomePeriodFree(ci) ==
    \A e \in 1..Len(ci) :
        ci[e].available <=> \E k \in 1..Len(ci[e].slots) : ci[e].slots[k].remaining > 0

\* C6 as claimed: every item of the list contributes its period to exactly
\* one entry, and available <=> some contributed period had remainingUses > 0.
C6_AsClaimed ==
    MainReturned =>
        /\ \A p \in AllPeriods(main_court_info, main_slots) :
              PeriodsHeld(main_court_info, p)
                = Cardinality({i \in 1..Len(main_slots) : ItemPeriod(main_slots[i]) = p})
        /\ AvailableIffSomePeriodFree(main_court_info)

\* The last path segment of the facilityUse is the target id.
ExactFacility(x) ==
    \/ x.facilityUse = SQUASH_FACILITY_ID
    \/ \E i \in 1..Len(x.facilityUse) :
          SubSeq(x.facilityUse, i, Len(x.facilityUse)) = <<"/">> \o SQUASH_FACILITY_ID

\* The item is the only one of the list with its startDate (among those of
\* the target facility).
AloneAtStart(slots, i) ==
    \A j \in 1..Len(slots) :
        (ExactFacility(slots[j]) /\ slots[j].startDate = slots[i].startDate) => j = i

OverridePattern(x) ==
    x.remainingUses = 0 /\ Len(x.offers) > 0 /\ x.offers[1] > 0 /\ Len(x.locations) = 2

NoOverrideIn(slots) ==
    \A i \in 1..Len(slots) :
        ~(ExactFacility(slots[i]) /\ AloneAtStart(slots, i) /\ OverridePattern(slots[i]))

\* The number of periods an item contributes.
Contributions(slots, i) ==
    IF ~ExactFacility(slots[i]) THEN 0
    ELSE IF AloneAtStart(slots, i) /\ Len(slots[i].locations) > 0
         THEN Len(slots[i].locations)
         ELSE 1

(***************************************************************************)
(* C6 amended: for a list in which no item alone at its start time shows   *)
(* the partial-booking pattern, an item whose facilityUse ends in the      *)
(* target id contributes its period once per embedded location when it is  *)
(* alone at its start time and has locations, and exactly once otherwise;  *)
(* an item whose facilityUse only contains the id contributes nothing; no  *)
(* other period is in the map; and an entry is available iff one of its    *)
(* periods had remainingUses > 0.                                          *)
(***************************************************************************)
C6_ContributionsCounted ==
    (MainReturned /\ NoOverrideIn(main_slots)) =>
        /\ \A p \in AllPeriods(main_court_info, main_slots) :
              PeriodsHeld(main_court_info, p)
                = Cardinality(UNION {{<<i, k>> : k \in 1..Contributions(main_slots, i)} :
                    i \in {i \in 1..Len(main_slots) : ItemPeriod(main_slots[i]) = p}})
        /\ AvailableIffSomePeriodFree(main_court_info)
        /\ \A e \in 1..Len(main_court_info) : main_court_info[e].slots # <<>>

\* A list of three slots without the pattern, one of them fanned out over
\* its two locations and two sharing a start time, has been aggregated.
C6_Witness ==
    /\ MainReturned
    /\ Len(main_slots) = 3
    /\ NoOverrideIn(main_slots)
    /\ \E i \in 1..3 : Contributions(main_slots, i) = 2
    /\ \E i \in 1..3 : ~AloneAtStart(main_slots, i)
    /\ Len(main_court_info) >= 3

(***************************************************************************)
(* C7: processing a single-item group whose item has remainingUses = 0, a  *)
(* first offer with price > 0 and exactly two locations leaves the map,    *)
(* whatever it held, with the one entry "Available Courts" /               *)
(* "partial_booking", available, remaining_uses 1, one period for the      *)
(* item's start and end; with any other number of locations the map is not *)
(* replaced: its entries keep their names and periods, the item's period   *)
(* (remaining 0) is appended to its ordinary entries, and no entry         *)
(* "Available Courts" is created.                                          *)
(***************************************************************************)
ProcessingSingle ==
    /\ pc \in {"proc_main", "proc_before"}
    /\ gi <= Len(time_slots)
    /\ Len(time_slots[gi].group) = 1

BookedButPriced(x) == x.remainingUses = 0 /\ Len(x.offers) > 0 /\ x.offers[1] > 0

AvailableCourtsOnly(x) ==
    << [name |-> "Available Courts", id |-> "partial_booking", available |-> TRUE,
        remaining_uses |-> 1,
        slots |-> << [start |-> x.startDate, end |-> x.endDate, remaining |-> 1] >>] >>

\* new extends old: same entries first, same names, periods only appended.
ExtendsMap(old, new) ==
    /\ Len(new) >= Len(old)
    /\ \A i \in 1..Len(old) :
          /\ new[i].name = old[i].name
          /\ Len(new[i].slots) >= Len(old[i].slots)
          /\ SubSeq(new[i].slots, 1, Len(old[i].slots)) = old[i].slots

C7_PartialBookingNeedsTwoLocations ==
    [][ (ProcessingSingle /\ BookedButPriced(time_slots[gi].group[1])) =>
          LET x == time_slots[gi].group[1]
          IN  IF Len(x.locations) = 2
              THEN court_info' = AvailableCourtsOnly(x)
              ELSE /\ ExtendsMap(court_info, court_info')
                   /\ \A i \in 1..Len(court_info') :
                         court_info'[i].name = "Available Courts"
                            => (i <= Len(court_info) /\ court_info'[i] = court_info[i])
                   /\ Cardinality({i \in 1..Len(court_info') :
                            /\ court_info'[i].slots # <<>>
                            /\ court_info'[i].slots[Len(court_info'[i].slots)]
                                 = [start |-> x.startDate, end |-> x.endDate, remaining |-> 0]
                            /\ (i > Len(court_info)
                                \/ Len(court_info'[i].slots) = Len(court_info[i].slots) + 1)})
                        = IF Len(x.locations) = 0 THEN 1 ELSE Len(x.locations)
    ]_vars

\* The second group processed was such a single item with two locations,
\* and the map, which held the first group's entries, holds the one entry.
C7_Witness ==
    /\ pc \in {"proc_main", "proc_before"}
    /\ gi = 3
    /\ Len(time_slots[2].group) = 1
    /\ BookedButPriced(time_slots[2].group[1])
    /\ Len(time_slots[2].group[1].locations) = 2
    /\ court_info = AvailableCourtsOnly(time_slots[2].group[1])

(***************************************************************************)
(* C8: processing a group of two or more items appends the period of each  *)
(* item to "Squash Court 2" iff its remainingUses > 0 and its first-offer  *)
(* price > 0, and to "Squash Court 1" otherwise, whatever its position and *)
(* its locations, and touches no other entry; on an empty map the group    *)
(* {remainingUses 1, price > 0}, {remainingUses 0, price 0} yields the two *)
(* entries "Squash Court 2", available, and "Squash Court 1", not          *)
(* available.                                                              *)
(***************************************************************************)
ProcessingMultiple ==
    /\ pc \in {"proc_main", "proc_before"}
    /\ gi <= Len(time_slots)
    /\ Len(time_slots[gi].group) >= 2

CourtFor(x) ==
    IF x.remainingUses > 0 /\ (IF Len(x.offers) > 0 THEN x.offers[1] ELSE 0) > 0
    THEN "Squash Court 2" ELSE "Squash Court 1"

SlotsOf(ci, name) ==
    IF \E i \in 1..Len(ci) : ci[i].name = name
    THEN ci[CHOOSE i \in 1..Len(ci) : ci[i].name = name].slots
    ELSE <<>>

\* The periods appended to the entry called name.
Appended(old, new, name) ==
    SubSeq(SlotsOf(new, name), Len(SlotsOf(old, name)) + 1, Len(SlotsOf(new, name)))

Names(ci) == {ci[i].name : i \in 1..Len(ci)}

EntryOf(ci, name) == ci[CHOOSE i \in 1..Len(ci) : ci[i].name = name]

C8_CourtByRemainingAndPrice ==
    [][ ProcessingMultiple =>
          LET g == time_slots[gi].group
          IN  /\ ExtendsMap(court_info, court_info')
              /\ Names(court_info') = Names(court_info) \cup {CourtFor(g[j]) : j \in 1..Len(g)}
              /\ \A name \in Names(court_info') :
                    LET added == Appended(court_info, court_info', name)
                    IN  \A p \in {ItemPeriod(g[j]) : j \in 1..Len(g)}
                                \cup {added[k] : k \in 1..Len(added)} :
                           Cardinality({k \in 1..Len(added) : added[k] = p})
                             = Cardinality({j \in 1..Len(g) :
                                   CourtFor(g[j]) = name /\ ItemPeriod(g[j]) = p})
              /\ (/\ court_info = <<>>
                  /\ Len(g) = 2
                  /\ \E a \in 1..2 : /\ g[a].remainingUses = 1
                                     /\ Len(g[a].offers) > 0 /\ g[a].offers[1] > 0
                  /\ \E b \in 1..2 : g[b].remainingUses = 0 /\ g[b].offers = <<0>>)
                 => /\ Len(court_info') = 2
                    /\ EntryOf(court_info', "Squash Court 2").available
                    /\ ~EntryOf(court_info', "Squash Court 1").available
    ]_vars

\* A first group of two items, one free and priced with two locations, the
\* other booked at price 0, has been processed.
C8_Witness ==
    /\ pc \in {"proc_main", "proc_before"}
    /\ gi = 2
    /\ Len(time_slots[1].group) = 2
    /\ \E a \in 1..2 : /\ time_slots[1].group[a].remainingUses > 0
                       /\ time_slots[1].group[a].offers = <<1025>>
                       /\ Len(time_slots[1].group[a].locations) = 2
    /\ \E b \in 1..2 : /\ time_slots[1].group[b].remainingUses = 0
                       /\ time_slots[1].group[b].offers = <<0>>
    /\ Len(court_info) = 2
    /\ EntryOf(court_info, "Squash Court 2").available
    /\ ~EntryOf(court_info, "Squash Court 1").available

(***************************************************************************)
(* C9: in every report of a run that raised nothing, success and message   *)
(* follow from the number n of available entries of the before-window map  *)
(* alone: n = 0 gives failure and the negative message, n = 1 success and  *)
(* "There is one slot free before your booking", n >= 2 success and the    *)
(* plural message with n; before_slot_available = n, and                   *)
(* main_slot_available is the same count over the main-window map.         *)
(***************************************************************************)
AvailableEntries(ci) == {i \in 1..Len(ci) : ci[i].available = TRUE}

C9_ReportFollowsBeforeCount ==
    (pc = "done" /\ result.kind = "report") =>
        LET n == Cardinality(AvailableEntries(result.before_court_info))
        IN  /\ result.before_court_info = before_court_info
            /\ result.main_court_info = main_court_info
            /\ result.before_slot_available = n
            /\ result.main_slot_available
                 = Cardinality(AvailableEntries(result.main_court_info))
            /\ n = 0 => /\ result.success = FALSE
                        /\ result.message = "There is no slots free before your booking"
            /\ n = 1 => /\ result.success = TRUE
                        /\ result.message = "There is one slot free before your booking"
            /\ n >= 2 => /\ result.success = TRUE
                         /\ result.message = "There are " \o ToString(n)
                                               \o " slots free before your booking"

\* A report with two courts free before the booking.
C9_Witness ==
    /\ pc = "done"
    /\ result.kind = "report"
    /\ result.before_slot_available = 2
    /\ result.message = "There are 2 slots free before your booking"

(***************************************************************************)
(* C10 as claimed: for every valid start time t the main window is         *)
(* [t, t + 40 min) and the before window [t - 40 min, t) on the target     *)
(* date: each 40 minutes long, start before end, the before window ending  *)
(* where the main window starts.  Refuted within 40 minutes of midnight:   *)
(* the bounds are formatted as HH:MM, which drops the date, and parsed     *)
(* back on the target date, so a bound that crossed midnight lands on the  *)
(* wrong side of the other.                                                *)
(***************************************************************************)
\* The bound the filter compares with: parse_datetime(target_date, bound).
BoundInstant(hm) ==
    Ordinal(target_date.y, target_date.mo, target_date.d) * 1440 + hm.h * 60 + hm.m

C10_AsClaimed ==
    (ValidDate(target_date) /\ ValidTime(start_time) /\ windows # NoWindows) =>
        /\ BoundInstant(windows.main_start) = BoundInstant(start_time)
        /\ BoundInstant(windows.main_end) = BoundInstant(windows.main_start) + 40
        /\ BoundInstant(windows.before_end) = BoundInstant(windows.main_start)
        /\ BoundInstant(windows.before_start) = BoundInstant(windows.before_end) - 40

(***************************************************************************)
(* C11.  The filter as the claim states it, read off the items and the     *)
(* query alone.  The query bounds are wall-clock times on the query date;  *)
(* they are taken at the offsets of the first item of the list that is     *)
(* compared at all (target facility, both timestamps parse).               *)
(***************************************************************************)
ParsesBoth(x) ==
    /\ ~x.nodata
    /\ IsSubstring(SQUASH_FACILITY_ID, x.facilityUse)
    /\ x.startDate.form = "iso"
    /\ x.endDate.form = "iso"

ItemInstant(t) ==
    Ordinal(t.y, t.mo, t.d) * 1440 + t.h * 60 + t.mi - (IF t.tz = "+01:00" THEN 60 ELSE 0)

\* The wall-clock time hm of the query date, at the offset of timestamp t.
QueryInstant(hm, t) ==
    Ordinal(target_date.y, target_date.mo, target_date.d) * 1440 + hm.h * 60 + hm.m
        - (IF t.tz = "+01:00" THEN 60 ELSE 0)

ClaimedFilter(slots, qs, qe) ==
    LET compared == {i \in 1..Len(slots) : ParsesBoth(slots[i])}
        first == slots[CHOOSE i \in compared : \A j \in compared : i <= j]
        Retained(x) ==
            /\ ParsesBoth(x)
            /\ Ordinal(x.startDate.y, x.startDate.mo, x.startDate.d)
                  = Ordinal(target_date.y, target_date.mo, target_date.d)
            /\ ItemInstant(x.startDate) < QueryInstant(qe, first.endDate)
            /\ ItemInstant(x.endDate) > QueryInstant(qs, first.startDate)
    IN  SelectSeq(slots, Retained)

HasNullTimestamp(slots) ==
    \E i \in 1..Len(slots) : slots[i].startDate.form = "null" \/ slots[i].endDate.form = "null"

(***************************************************************************)
(* C11 as claimed: filter_squash_slots_by_time raises nothing and returns, *)
(* in input order, exactly the items of the target facility whose          *)
(* timestamps parse, whose start date is the query date and which overlap  *)
(* the half-open query window; an item with a missing or malformed         *)
(* timestamp is dropped.  Refuted: a startDate or endDate that is present  *)
(* but not a string (JSON null) raises AttributeError, which the           *)
(* "except (KeyError, ValueError)" of the loop does not catch.             *)
(***************************************************************************)
C11_AsClaimed ==
    /\ pc # "raised"
    /\ pc \in {"filter_before", "agg_main"} =>
          main_slots = ClaimedFilter(all_slots, windows.main_start, windows.main_end)
    /\ pc = "agg_main" =>
          before_slots = ClaimedFilter(all_slots, windows.before_start, windows.before_end)

\* The extent of the divergence: on lists without such a value the filter
\* is as claimed.
C11_HoldsOfStringTimestamps ==
    ~HasNullTimestamp(all_slots) => C11_AsClaimed

(***************************************************************************)
(* C12.  The groups of a list, read off the list: an item's group is       *)
(* processed at the position of the first item of the target facility with *)
(* its startDate.  A triggering group is a single item with the            *)
(* partial-booking pattern.                                                *)
(***************************************************************************)
GroupPosition(slots, i) ==
    CHOOSE j \in 1..Len(slots) :
        /\ ExactFacility(slots[j]) /\ slots[j].startDate = slots[i].startDate
        /\ \A k \in 1..(j - 1) :
               ~(ExactFacility(slots[k]) /\ slots[k].startDate = slots[i].startDate)

Triggering(slots) ==
    {i \in 1..Len(slots) :
        ExactFacility(slots[i]) /\ AloneAtStart(slots, i) /\ OverridePattern(slots[i])}

LastTriggering(slots) ==
    CHOOSE i \in Triggering(slots) : \A j \in Triggering(slots) : j <= i

\* The items of the groups processed after the last triggering group.
ProcessedAfter(slots, last) ==
    {i \in 1..Len(slots) : ExactFacility(slots[i]) /\ GroupPosition(slots, i) > last}

(***************************************************************************)
(* C12 as claimed: when one or more groups of a window trigger the         *)
(* partial-booking override, the map returned starts with the entry        *)
(* "Available Courts" holding exactly one period, that of the last         *)
(* triggering group (with remaining 1); every other entry holds only       *)
(* periods of items whose group was processed after that group.  Refuted:  *)
(* _process_single_slot keys an entry by the location's name (lines        *)
(* 228-238), so a later single item with a location named "Available       *)
(* Courts" appends its period to the override's entry.                     *)
(***************************************************************************)
C12_AsClaimed ==
    (MainReturned /\ Triggering(main_slots) # {}) =>
        LET last == LastTriggering(main_slots)
            after == ProcessedAfter(main_slots, last)
        IN  /\ Len(main_court_info) >= 1
            /\ main_court_info[1] = AvailableCourtsOnly(main_slots[last])[1]
            /\ \A e \in 2..Len(main_court_info) :
                  /\ main_court_info[e].name # "Available Courts"
                  /\ main_court_info[e].slots # <<>>
                  /\ \A k \in 1..Len(main_court_info[e].slots) :
                        \E i \in after :
                            main_court_info[e].slots[k] = ItemPeriod(main_slots[i])

\* The number of periods item i adds to the entry "Available Courts" as
\* an ordinary contribution: one per location of that name, when the item
\* is alone in its group.
NamedAvailableBy(slots, i) ==
    IF ExactFacility(slots[i]) /\ AloneAtStart(slots, i)
    THEN Cardinality({k \in 1..Len(slots[i].locations) :
                         slots[i].locations[k].name = "Available Courts"})
    ELSE 0

(***************************************************************************)
(* C12 amended: when one or more groups trigger the override, the map      *)
(* returned starts with the entry "Available Courts" / "partial_booking",  *)
(* available, whose first period is that of the last triggering group      *)
(* (with remaining 1); its further periods are exactly those of the single *)
(* items processed after that group that carry a location named           *)
(* "Available Courts", one per such location, and without such an item it  *)
(* holds exactly the one period; every other entry holds only periods of   *)
(* items whose group was processed after the last triggering group, at     *)
(* least one, and each such item has its period in the map: nothing of an  *)
(* earlier group, an earlier override or the triggering item's two         *)
(* locations is left.                                                      *)
(***************************************************************************)
C12_LastOverrideWins ==
    (MainReturned /\ Triggering(main_slots) # {}) =>
        LET last == LastTriggering(main_slots)
            after == ProcessedAfter(main_slots, last)
            only == AvailableCourtsOnly(main_slots[last])[1]
            first == main_court_info[1]
            further == SubSeq(first.slots, 2, Len(first.slots))
        IN  /\ Len(main_court_info) >= 1
            /\ first.name = only.name /\ first.id = only.id /\ first.available
            /\ first.slots # <<>> /\ first.slots[1] = only.slots[1]
            /\ Len(further)
                 = Cardinality(UNION {{<<i, k>> : k \in 1..NamedAvailableBy(main_slots, i)} :
                                        i \in after})
            /\ \A k \in 1..Len(further) :
                  \E i \in after : /\ NamedAvailableBy(main_slots, i) > 0
                                    /\ further[k] = ItemPeriod(main_slots[i])
            /\ (\A i \in after : NamedAvailableBy(main_slots, i) = 0) => first = only
            /\ \A e \in 2..Len(main_court_info) :
                  /\ main_court_info[e].name # "Available Courts"
                  /\ main_court_info[e].slots # <<>>
                  /\ \A k \in 1..Len(main_court_info[e].slots) :
                        \E i \in after :
                            main_court_info[e].slots[k] = ItemPeriod(main_slots[i])
            /\ \A i \in after :
                  \E e \in 1..Len(main_court_info) :
                     \E k \in 1..Len(main_court_info[e].slots) :
                        /\ (e = 1 => k >= 2)
                        /\ main_court_info[e].slots[k] = ItemPeriod(main_slots[i])

\* Two groups triggered the override one after the other, a third group
\* followed: the map holds the second override and the third group.
C12_Witness ==
    /\ MainReturned
    /\ Len(main_slots) = 3
    /\ Triggering(main_slots) = {1, 2}
    /\ ProcessedAfter(main_slots, 2) = {3}
    /\ Len(main_court_info) = 2
    /\ main_court_info[1].slots[1].start = main_slots[2].startDate

(***************************************************************************)
(* C13.  Internal consistency of an entry, and the number of periods one   *)
(* group contributes to a name, read off the group's items.                *)
(***************************************************************************)
ConsistentEntry(e) ==
    /\ e.slots # <<>>
    /\ e.remaining_uses >= 0
    /\ \A k \in 1..Len(e.slots) : e.slots[k].remaining <= e.remaining_uses
    /\ \E k \in 1..Len(e.slots) : e.slots[k].remaining = e.remaining_uses
    /\ e.available <=> (\E k \in 1..Len(e.slots) : e.slots[k].remaining > 0)

ConsistentMap(ci) == \A i \in 1..Len(ci) : ConsistentEntry(ci[i])

NameOfLocation(l) ==
    IF l.name # "" THEN l.name ELSE "Squash Court (" \o l.identifier \o ")"

ContributionsTo(g, name) ==
    IF Len(g) >= 2 THEN Cardinality({j \in 1..Len(g) : CourtFor(g[j]) = name})
    ELSE IF g[1].locations = <<>>
         THEN (IF name = "Squash Court ("
                           \o (IF g[1].identifier = Absent THEN "Unknown" ELSE g[1].identifier)
                           \o ")"
               THEN 1 ELSE 0)
         ELSE Cardinality({k \in 1..Len(g[1].locations) :
                              NameOfLocation(g[1].locations[k]) = name})

\* The maps between the updates of one group: after each location of a
\* single slot, after each slot of a group of several.
MapsWithin(g, ci) ==
    IF Len(g) >= 2
    THEN {MultipleLoop(SubSeq(SortByIdentifier(g), 1, n), ci, 1) : n \in 0..Len(g)}
    ELSE {SingleSlotLocations([g[1] EXCEPT !.locations = SubSeq(g[1].locations, 1, n)],
                              ci, 1) : n \in 0..Len(g[1].locations)}

(***************************************************************************)
(* C13: after every update of the aggregation every entry of the map is    *)
(* consistent: remaining_uses is the maximum of the 'remaining' of its     *)
(* periods and not below 0, available holds iff one of its periods has     *)
(* remaining > 0; and processing a group either clears the map (the        *)
(* partial-booking override, leaving one entry with one period) or only    *)
(* appends, to each name one period of the group per contribution of the   *)
(* group to that name, without deduplication.                              *)
(***************************************************************************)
C13_EntriesStayConsistent ==
    [][ (pc \in {"proc_main", "proc_before"} /\ gi <= Len(time_slots)) =>
          LET g == time_slots[gi].group
          IN  /\ ConsistentMap(court_info')
              /\ \A m \in MapsWithin(g, court_info) : ConsistentMap(m)
              /\ IF Len(g) = 1 /\ OverridePattern(g[1])
                 THEN /\ Len(court_info') = 1
                      /\ Len(court_info'[1].slots) = 1
                 ELSE /\ ExtendsMap(court_info, court_info')
                      /\ \A name \in Names(court_info') :
                            LET added == Appended(court_info, court_info', name)
                            IN  /\ Len(added) = ContributionsTo(g, name)
                                /\ \A k \in 1..Len(added) :
                                      \E j \in 1..Len(g) : added[k] = ItemPeriod(g[j])
    ]_vars

\* An entry built by two groups: a period with 2 remaining, then one with
\* none; it keeps the maximum and stays available.
C13_Witness ==
    /\ pc \in {"proc_main", "proc_before"}
    /\ gi = 3
    /\ \E i \in 1..Len(court_info) :
          /\ Len(court_info[i].slots) = 2
          /\ court_info[i].slots[1].remaining = 2
          /\ court_info[i].slots[2].remaining = 0
          /\ court_info[i].remaining_uses = 2
          /\ court_info[i].available

====
